---- MODULE Spec2Model ----
(***************************************************************************)
(* Model of src/gallium/drivers/ilo/core/ilo_state_sol.c: validation and   *)
(* encoding of 3DSTATE_STREAMOUT and 3DSTATE_SO_DECL_LIST.                 *)
(*                                                                         *)
(* Representation.  A C machine word is the set of the positions of its 1  *)
(* bits (bit 0 is the least significant): a uint32_t is a subset of 0..31, *)
(* a uint64_t a subset of 0..63.  Bitwise OR is set union, a left shift    *)
(* adds the shift to every position, and an assignment to a narrower type  *)
(* keeps only the positions below its width.                               *)
(*                                                                         *)
(* assert() is modelled as compiled in: a failed assertion ends the call   *)
(* at that point (pc = "aborted") with nothing after it executed.          *)
(*                                                                         *)
(* Left shifts of a promoted uint8_t into bit 31 (decl_counts[3] << 24     *)
(* with a count of 128) are modelled with the two's-complement result, as  *)
(* the compilers the driver is built with define them.                     *)
(***************************************************************************)
EXTENDS Integers, Sequences, FiniteSets, TLC

VARIABLES dev, info, scratch, so, ret, pc, call

vars == <<dev, info, scratch, so, ret, pc, call>>

---------------------------------------------------------------------------
(* Machine words as sets of bit positions *)

\* The bits of a non-negative scalar below 4096 (every uint8_t, bool and enum
\* value of the model, and every uint16_t stride it draws), tabulated once.
BitsTable == [n \in 0..4095 |-> {i \in 0..15 : (n \div (2^i)) % 2 = 1}]
Bits(n) == BitsTable[n]

\* w << k
Shl(w, k) == {b + k : b \in w}

\* conversion to an unsigned type of the given width
Trunc(w, width) == {b \in w : b < width}

\* The unsigned value of the field of `width` bits at `shift` in word w.
Field(w, shift, width) ==
    LET f[i \in 0..width] ==
          IF i = 0 THEN 0
          ELSE f[i - 1] + (IF (shift + i - 1) \in w THEN 2^(i - 1) ELSE 0)
    IN  f[width]

Zero == {}

---------------------------------------------------------------------------
(* Constants of ilo_state_sol.h and genhw/gen_render_3d.xml.h *)

ILO_STATE_SOL_MAX_STREAM_COUNT == 4
ILO_STATE_SOL_MAX_BUFFER_COUNT == 4
ILO_STATE_SOL_MAX_DECL_COUNT == 128

\* ILO_GEN(7), ILO_GEN(7.5), ILO_GEN(8)
ILO_GEN_7 == 700
ILO_GEN_7_5 == 750
ILO_GEN_8 == 800

GEN7_SO_DW1_SO_ENABLE == {31}
GEN7_SO_DW1_RENDER_DISABLE == {30}
GEN7_SO_DW1_RENDER_STREAM_SELECT__SHIFT == 27
GEN7_SO_DW1_REORDER_MODE__SHIFT == 26
GEN7_SO_DW1_STATISTICS == {25}
GEN7_SO_DW1_BUFFER_ENABLES__SHIFT == 8

GEN7_SO_DW2_STREAM3_READ_OFFSET__SHIFT == 29
GEN7_SO_DW2_STREAM3_READ_LEN__SHIFT == 24
GEN7_SO_DW2_STREAM2_READ_OFFSET__SHIFT == 21
GEN7_SO_DW2_STREAM2_READ_LEN__SHIFT == 16
GEN7_SO_DW2_STREAM1_READ_OFFSET__SHIFT == 13
GEN7_SO_DW2_STREAM1_READ_LEN__SHIFT == 8
GEN7_SO_DW2_STREAM0_READ_OFFSET__SHIFT == 5
GEN7_SO_DW2_STREAM0_READ_LEN__SHIFT == 0

GEN8_SO_DW3_BUFFER1_PITCH__SHIFT == 16
GEN8_SO_DW3_BUFFER0_PITCH__SHIFT == 0
GEN8_SO_DW4_BUFFER3_PITCH__SHIFT == 16
GEN8_SO_DW4_BUFFER2_PITCH__SHIFT == 0

GEN7_SO_DECL_OUTPUT_SLOT__SHIFT == 12
GEN7_SO_DECL_HOLE_FLAG == {11}
GEN7_SO_DECL_REG_INDEX__SHIFT == 4
GEN7_SO_DECL_COMPONENT_MASK__SHIFT == 0

GEN7_SO_DECL_DW1_STREAM3_BUFFER_SELECTS__SHIFT == 12
GEN7_SO_DECL_DW1_STREAM2_BUFFER_SELECTS__SHIFT == 8
GEN7_SO_DECL_DW1_STREAM1_BUFFER_SELECTS__SHIFT == 4
GEN7_SO_DECL_DW1_STREAM0_BUFFER_SELECTS__SHIFT == 0

GEN7_SO_DECL_DW2_STREAM3_ENTRY_COUNT__SHIFT == 24
GEN7_SO_DECL_DW2_STREAM2_ENTRY_COUNT__SHIFT == 16
GEN7_SO_DECL_DW2_STREAM1_ENTRY_COUNT__SHIFT == 8
GEN7_SO_DECL_DW2_STREAM0_ENTRY_COUNT__SHIFT == 0

\* sizeof(so->decl[0]): one table entry is uint32_t[2]
SIZEOF_DECL == 8

Streams == 0..(ILO_STATE_SOL_MAX_STREAM_COUNT - 1)
Buffers == 0..(ILO_STATE_SOL_MAX_BUFFER_COUNT - 1)

---------------------------------------------------------------------------
(* ilo_state_sol.h: ilo_state_sol_data_size *)

ilo_state_sol_data_size(gen, max_decl_count) ==
    IF gen >= ILO_GEN_7 THEN SIZEOF_DECL * max_decl_count ELSE 0

---------------------------------------------------------------------------
(* Validation.  The result of a validator is "true", "false", or "assert"  *)
(* when one of its assertions fails.                                       *)

\* decl_validate with the limit of 33 applied to non-holes only.
decl_validate_holes_unchecked(stream, decl) ==
    /\ (decl.is_hole \/ (decl.attr < stream.vue_read_count /\ decl.attr < 33))
    /\ (decl.component_base < 4 /\
        decl.component_base + decl.component_count <= 4)
    /\ decl.buffer < ILO_STATE_SOL_MAX_BUFFER_COUNT

decl_validate(stream, decl) ==
    /\ (decl.is_hole \/ decl.attr < stream.vue_read_count)
    /\ decl.attr < 33
    /\ (decl.component_base < 4 /\
        decl.component_base + decl.component_count <= 4)
    /\ decl.buffer < ILO_STATE_SOL_MAX_BUFFER_COUNT

\* What the checks of one stream amount to.
stream_checks(gen, stream) ==
    /\ gen >= ILO_GEN_7 /\ gen <= ILO_GEN_8
    /\ stream.vue_read_base + stream.vue_read_count <= stream.cv_vue_attr_count
    /\ (stream.vue_read_base = 0 \/ stream.vue_read_base = 2)
    /\ stream.vue_read_count <= 34
    /\ stream.decl_count <= ILO_STATE_SOL_MAX_DECL_COUNT
    /\ \A i \in 0..(stream.decl_count - 1) : decl_validate(stream, stream.decls[i + 1])

\* sol_stream_validate_gen7 reporting a failed check by returning false.
sol_stream_validate_gen7_returns(gen, stream) ==
    IF stream_checks(gen, stream) THEN "true" ELSE "false"

\* Every check is an assert; the function returns true when all pass.
sol_stream_validate_gen7(gen, stream) ==
    IF stream_checks(gen, stream) THEN "true" ELSE "assert"

stride_validate(stride) == stride <= 2048 /\ stride % 4 = 0


\* The least stream whose validation does not return "true" decides the loop.
sol_validate_gen7(gen, inf) ==
    LET bad == {i \in Streams : sol_stream_validate_gen7(gen, inf.streams[i]) # "true"}
        first == CHOOSE i \in bad : \A k \in bad : i <= k
    IN  IF ~(gen >= ILO_GEN_7 /\ gen <= ILO_GEN_8) THEN "assert"
        ELSE IF bad # {}
             THEN (IF sol_stream_validate_gen7(gen, inf.streams[first]) = "assert"
                   THEN "assert" ELSE "false")
        ELSE IF \E i \in Buffers : ~stride_validate(inf.buffer_strides[i]) THEN "assert"
        ELSE "true"

---------------------------------------------------------------------------
(* sol_set_gen7_3DSTATE_STREAMOUT *)

vue_read_offset(stream) == Trunc(Bits(stream.vue_read_base \div 2), 8)

\* vue_read_len without the test of line 162: a uint8_t 0 decremented wraps.
vue_read_len_unguarded(stream) ==
    LET len == (stream.vue_read_count + 1) \div 2
    IN  Trunc(Bits((len + 255) % 256), 8)

\* In pairs minus 1.
vue_read_len(stream) ==
    LET len == (stream.vue_read_count + 1) \div 2
    IN  Trunc(Bits(IF len # 0 THEN len - 1 ELSE len), 8)

BoolInt(b) == IF b THEN 1 ELSE 0

buffer_enables(inf) ==
    Trunc(Shl(Bits(BoolInt(inf.buffer_strides[3] # 0)), 3) \cup
          Shl(Bits(BoolInt(inf.buffer_strides[2] # 0)), 2) \cup
          Shl(Bits(BoolInt(inf.buffer_strides[1] # 0)), 1) \cup
          Bits(BoolInt(inf.buffer_strides[0] # 0)), 8)

\* streamout_dw1 with the buffer enables packed on every generation.
streamout_dw1_all_gens(gen, inf) ==
    Trunc(Shl(Bits(inf.render_stream), GEN7_SO_DW1_RENDER_STREAM_SELECT__SHIFT) \cup
          Shl(Bits(inf.tristrip_reorder), GEN7_SO_DW1_REORDER_MODE__SHIFT) \cup
          (IF inf.sol_enable THEN GEN7_SO_DW1_SO_ENABLE ELSE Zero) \cup
          (IF inf.render_disable THEN GEN7_SO_DW1_RENDER_DISABLE ELSE Zero) \cup
          (IF inf.stats_enable THEN GEN7_SO_DW1_STATISTICS ELSE Zero) \cup
          Shl(buffer_enables(inf), GEN7_SO_DW1_BUFFER_ENABLES__SHIFT), 32)

streamout_dw1(gen, inf) ==
    Trunc(Shl(Bits(inf.render_stream), GEN7_SO_DW1_RENDER_STREAM_SELECT__SHIFT) \cup
          Shl(Bits(inf.tristrip_reorder), GEN7_SO_DW1_REORDER_MODE__SHIFT) \cup
          (IF inf.sol_enable THEN GEN7_SO_DW1_SO_ENABLE ELSE Zero) \cup
          (IF inf.render_disable THEN GEN7_SO_DW1_RENDER_DISABLE ELSE Zero) \cup
          (IF inf.stats_enable THEN GEN7_SO_DW1_STATISTICS ELSE Zero) \cup
          (IF gen < ILO_GEN_8
           THEN Shl(buffer_enables(inf), GEN7_SO_DW1_BUFFER_ENABLES__SHIFT)
           ELSE Zero), 32)

streamout_dw2(inf) ==
    Trunc(Shl(vue_read_offset(inf.streams[3]), GEN7_SO_DW2_STREAM3_READ_OFFSET__SHIFT) \cup
          Shl(vue_read_len(inf.streams[3]), GEN7_SO_DW2_STREAM3_READ_LEN__SHIFT) \cup
          Shl(vue_read_offset(inf.streams[2]), GEN7_SO_DW2_STREAM2_READ_OFFSET__SHIFT) \cup
          Shl(vue_read_len(inf.streams[2]), GEN7_SO_DW2_STREAM2_READ_LEN__SHIFT) \cup
          Shl(vue_read_offset(inf.streams[1]), GEN7_SO_DW2_STREAM1_READ_OFFSET__SHIFT) \cup
          Shl(vue_read_len(inf.streams[1]), GEN7_SO_DW2_STREAM1_READ_LEN__SHIFT) \cup
          Shl(vue_read_offset(inf.streams[0]), GEN7_SO_DW2_STREAM0_READ_OFFSET__SHIFT) \cup
          Shl(vue_read_len(inf.streams[0]), GEN7_SO_DW2_STREAM0_READ_LEN__SHIFT), 32)

streamout_dw3(inf) ==
    Trunc(Shl(Bits(inf.buffer_strides[1]), GEN8_SO_DW3_BUFFER1_PITCH__SHIFT) \cup
          Shl(Bits(inf.buffer_strides[0]), GEN8_SO_DW3_BUFFER0_PITCH__SHIFT), 32)

streamout_dw4(inf) ==
    Trunc(Shl(Bits(inf.buffer_strides[3]), GEN8_SO_DW4_BUFFER3_PITCH__SHIFT) \cup
          Shl(Bits(inf.buffer_strides[2]), GEN8_SO_DW4_BUFFER2_PITCH__SHIFT), 32)

\* The result is [rv |-> "true" | "false" | "assert", so |-> the state object after].
sol_set_gen7_3DSTATE_STREAMOUT(s, gen, inf) ==
    LET v == sol_validate_gen7(gen, inf)
    IN  IF ~(gen >= ILO_GEN_7 /\ gen <= ILO_GEN_8) THEN [rv |-> "assert", so |-> s]
        ELSE IF v # "true" THEN [rv |-> v, so |-> s]
        ELSE [rv |-> "true",
              so |-> [s EXCEPT
                 !.so = [k \in 0..5 |->
                           IF k = 0 THEN streamout_dw1(gen, inf)
                           ELSE IF k = 1 THEN streamout_dw2(inf)
                           ELSE IF k = 2 /\ gen >= ILO_GEN_8 THEN streamout_dw3(inf)
                           ELSE IF k = 3 /\ gen >= ILO_GEN_8 THEN streamout_dw4(inf)
                           ELSE s.so[k]]]]

---------------------------------------------------------------------------
(* sol_set_gen7_3DSTATE_SO_DECL_LIST *)

decl_mask(decl) ==
    Trunc(Shl(Bits((2^decl.component_count) - 1), decl.component_base), 8)

\* decl_val with the attribute index ORed in for holes too.
decl_val_hole_attr(decl) ==
    Trunc(Shl(Bits(decl.buffer), GEN7_SO_DECL_OUTPUT_SLOT__SHIFT) \cup
          Shl(decl_mask(decl), GEN7_SO_DECL_COMPONENT_MASK__SHIFT) \cup
          (IF decl.is_hole THEN GEN7_SO_DECL_HOLE_FLAG ELSE Zero) \cup
          Shl(Bits(decl.attr), GEN7_SO_DECL_REG_INDEX__SHIFT), 16)

\* uint16_t val
decl_val(decl) ==
    Trunc(Shl(Bits(decl.buffer), GEN7_SO_DECL_OUTPUT_SLOT__SHIFT) \cup
          Shl(decl_mask(decl), GEN7_SO_DECL_COMPONENT_MASK__SHIFT) \cup
          (IF decl.is_hole THEN GEN7_SO_DECL_HOLE_FLAG
           ELSE Shl(Bits(decl.attr), GEN7_SO_DECL_REG_INDEX__SHIFT)), 16)

\* decl_list[j] after both loops: every stream with a declaration j has ORed
\* its row in at 16 * i.
decl_list_entry(inf, j) ==
    Trunc(UNION {Shl(decl_val(inf.streams[i].decls[j + 1]), 16 * i) :
                   i \in {i \in Streams : j < inf.streams[i].decl_count}}, 64)

\* buffer_selects that skips the holes.
buffer_selects_no_holes(stream) ==
    Trunc(UNION {Shl(Bits(1), stream.decls[j + 1].buffer) :
                   j \in {j \in 0..(stream.decl_count - 1) :
                            ~stream.decls[j + 1].is_hole}}, 8)

\* uint8_t buffer_selects[i]
buffer_selects(stream) ==
    Trunc(UNION {Shl(Bits(1), stream.decls[j + 1].buffer) :
                   j \in 0..(stream.decl_count - 1)}, 8)

\* decl_counts masked to a 6-bit field.
decl_counts_6bit(stream) == Trunc(Bits(stream.decl_count), 6)

\* uint8_t decl_counts[i]
decl_counts(stream) == Trunc(Bits(stream.decl_count), 8)

decl_list_dw1(inf) ==
    Trunc(Shl(buffer_selects(inf.streams[3]), GEN7_SO_DECL_DW1_STREAM3_BUFFER_SELECTS__SHIFT) \cup
          Shl(buffer_selects(inf.streams[2]), GEN7_SO_DECL_DW1_STREAM2_BUFFER_SELECTS__SHIFT) \cup
          Shl(buffer_selects(inf.streams[1]), GEN7_SO_DECL_DW1_STREAM1_BUFFER_SELECTS__SHIFT) \cup
          Shl(buffer_selects(inf.streams[0]), GEN7_SO_DECL_DW1_STREAM0_BUFFER_SELECTS__SHIFT), 32)

decl_list_dw2(inf) ==
    Trunc(Shl(decl_counts(inf.streams[3]), GEN7_SO_DECL_DW2_STREAM3_ENTRY_COUNT__SHIFT) \cup
          Shl(decl_counts(inf.streams[2]), GEN7_SO_DECL_DW2_STREAM2_ENTRY_COUNT__SHIFT) \cup
          Shl(decl_counts(inf.streams[1]), GEN7_SO_DECL_DW2_STREAM1_ENTRY_COUNT__SHIFT) \cup
          Shl(decl_counts(inf.streams[0]), GEN7_SO_DECL_DW2_STREAM0_ENTRY_COUNT__SHIFT), 32)

\* memcpy(so->decl, decl_list, sizeof(so->decl[0]) * max_decl_count): the first
\* max_decl_count entries of the region so->decl points to are overwritten.
decl_memcpy(s, mem, inf, max_decl_count) ==
    IF s.decl = "scratch"
    THEN [k \in 1..Len(mem) |->
            IF k <= max_decl_count THEN decl_list_entry(inf, k - 1) ELSE mem[k]]
    ELSE mem

\* The result is [rv, so, scratch].
sol_set_gen7_3DSTATE_SO_DECL_LIST(s, mem, gen, inf, max_decl_count) ==
    IF ~(gen >= ILO_GEN_7 /\ gen <= ILO_GEN_8) \/
       (\E i \in Streams : ~(inf.streams[i].decl_count <= max_decl_count))
    THEN [rv |-> "assert", so |-> s, scratch |-> mem]
    ELSE [rv |-> "true",
          so |-> [s EXCEPT !.so = [k \in 0..5 |->
                                     IF k = 4 THEN decl_list_dw1(inf)
                                     ELSE IF k = 5 THEN decl_list_dw2(inf)
                                     ELSE s.so[k]],
                           !.decl_count = max_decl_count],
          scratch |-> decl_memcpy(s, mem, inf, max_decl_count)]

---------------------------------------------------------------------------
(* ilo_state_sol_init *)

ZeroSol == [so |-> [k \in 0..5 |-> Zero], decl |-> "NULL", decl_count |-> 0]

\* ilo_is_zeroed(so, sizeof(*so))
so_is_zeroed(s) == s = ZeroSol

\* ilo_is_zeroed(info->data, info->data_size)
data_is_zeroed(inf, mem) ==
    inf.data_size = 0 \/ (inf.data = "scratch" /\ \A k \in 1..Len(mem) : mem[k] = Zero)

\* The largest decl_count of the four streams.
init_max_decl_count(inf) ==
    CHOOSE m \in {inf.streams[i].decl_count : i \in Streams} :
        \A i \in Streams : inf.streams[i].decl_count <= m

\* assert(ret); return ret, after both encoders have run on state object s1.
init_encode(s1, mem, gen, inf, max_decl_count) ==
    LET a == sol_set_gen7_3DSTATE_STREAMOUT(s1, gen, inf)
    IN  IF a.rv = "assert"
        THEN [pc |-> "aborted", ret |-> "none", so |-> a.so, scratch |-> mem]
        ELSE LET b == sol_set_gen7_3DSTATE_SO_DECL_LIST(a.so, mem, gen, inf,
                                                        max_decl_count)
             IN  [pc |-> IF a.rv = "true" /\ b.rv = "true" THEN "returned" ELSE "aborted",
                  ret |-> IF a.rv = "true" /\ b.rv = "true" THEN "true" ELSE "none",
                  so |-> b.so, scratch |-> b.scratch]

\* The size check with equality in place of <=.
data_size_ok_exact(gen, inf) ==
    ilo_state_sol_data_size(gen, init_max_decl_count(inf)) = inf.data_size

\* assert(ilo_state_sol_data_size(dev, max_decl_count) <= info->data_size)
data_size_ok(gen, inf) ==
    ilo_state_sol_data_size(gen, init_max_decl_count(inf)) <= inf.data_size

\* The whole call: [pc |-> "returned" | "aborted", ret, so, scratch].
ilo_state_sol_init_run(gen, inf, s, mem) ==
    IF ~so_is_zeroed(s) \/ ~data_is_zeroed(inf, mem)
    THEN [pc |-> "aborted", ret |-> "none", so |-> s, scratch |-> mem]
    ELSE IF gen >= ILO_GEN_7
    THEN IF ~data_size_ok(gen, inf)
         THEN [pc |-> "aborted", ret |-> "none", so |-> s, scratch |-> mem]
         ELSE init_encode([s EXCEPT !.decl = inf.data], mem, gen, inf,
                          init_max_decl_count(inf))
    ELSE [pc |-> "returned", ret |-> "true", so |-> s, scratch |-> mem]

---------------------------------------------------------------------------
(* Inputs *)

Gens == {ILO_GEN_7, ILO_GEN_7_5, ILO_GEN_8}

Decl(attr, is_hole, component_base, component_count, buffer) ==
    [attr |-> attr, is_hole |-> is_hole, component_base |-> component_base,
     component_count |-> component_count, buffer |-> buffer]

Stream(cv_vue_attr_count, vue_read_base, vue_read_count, decls) ==
    [cv_vue_attr_count |-> cv_vue_attr_count, vue_read_base |-> vue_read_base,
     vue_read_count |-> vue_read_count, decl_count |-> Len(decls), decls |-> decls]

ZeroStream == Stream(0, 0, 0, <<>>)

\* memset(&info, 0, sizeof(info))
ZeroInfo ==
    [data |-> "NULL", data_size |-> 0, sol_enable |-> FALSE, stats_enable |-> FALSE,
     tristrip_reorder |-> 0, render_disable |-> FALSE, render_stream |-> 0,
     buffer_strides |-> [i \in Buffers |-> 0],
     streams |-> [i \in Streams |-> ZeroStream]]

\* One stream is the focus and the three others share a background.
FocusStreams(FS, BS) ==
    {[i \in Streams |-> IF i = s THEN fs ELSE bs] : s \in Streams, fs \in FS, bs \in BS}

\* A scratch region of n table entries, zero-filled or with one bit left set.
Region(n, dirty) == [k \in 1..n |-> IF dirty /\ k = 1 THEN {0} ELSE Zero]

\* The caller's info: the scratch region holds delta entries more than the
\* largest decl_count asks for.
InitFrom(Flags, Strides, StreamFns, SizeCases) ==
    \E g \in Gens, f \in Flags, st \in Strides, ss \in StreamFns, sc \in SizeCases :
      LET m == CHOOSE m \in {ss[i].decl_count : i \in Streams} :
                   \A i \in Streams : ss[i].decl_count <= m
          n == IF m + sc.delta >= 0 THEN m + sc.delta ELSE 0
      IN  /\ dev = g
          /\ info = [data |-> "scratch", data_size |-> SIZEOF_DECL * n,
                     sol_enable |-> f.sol_enable, stats_enable |-> f.stats_enable,
                     tristrip_reorder |-> f.tristrip_reorder,
                     render_disable |-> f.render_disable,
                     render_stream |-> f.render_stream,
                     buffer_strides |-> st, streams |-> ss]
          /\ scratch = Region(n, sc.dirty)
          /\ so = ZeroSol
          /\ ret = "none"
          /\ pc = "idle"
          /\ call = "none"

---------------------------------------------------------------------------
(* Operations *)

ilo_state_sol_init ==
    /\ pc = "idle"
    /\ \E r \in {ilo_state_sol_init_run(dev, info, so, scratch)} :
           /\ pc' = r.pc
           /\ ret' = r.ret
           /\ so' = r.so
           /\ scratch' = r.scratch
    /\ call' = "init"
    /\ UNCHANGED <<dev, info>>

ilo_state_sol_init_disabled ==
    /\ pc = "idle"
    /\ \E render_disable \in BOOLEAN :
         \E inf \in {[ZeroInfo EXCEPT !.render_disable = render_disable]} :
         \E r \in {ilo_state_sol_init_run(dev, inf, so, scratch)} :
             /\ info' = inf
             /\ pc' = r.pc
             /\ ret' = r.ret
             /\ so' = r.so
             /\ scratch' = r.scratch
    /\ call' = "init_disabled"
    /\ UNCHANGED dev

Next == ilo_state_sol_init \/ ilo_state_sol_init_disabled

---------------------------------------------------------------------------
(* Specification Spec: the flags, the render stream and the buffer strides vary *)

MaxRenderStream == 8

FlagsAll ==
    [sol_enable : BOOLEAN, render_disable : BOOLEAN, stats_enable : BOOLEAN,
     tristrip_reorder : 0..1, render_stream : 0..MaxRenderStream]

FlagsFew ==
    {[sol_enable |-> FALSE, render_disable |-> FALSE, stats_enable |-> FALSE,
      tristrip_reorder |-> 0, render_stream |-> 0],
     [sol_enable |-> TRUE, render_disable |-> TRUE, stats_enable |-> TRUE,
      tristrip_reorder |-> 1, render_stream |-> 3]}

StrideSet == {0, 4, 2048, 2052}

SizeExact == {[delta |-> 0, dirty |-> FALSE]}

StridePatterns ==
    {[i \in Buffers |-> 0], [i \in Buffers |-> IF i % 2 = 0 THEN 4 ELSE 0],
     [i \in Buffers |-> IF i % 2 = 1 THEN 2048 ELSE 0], [i \in Buffers |-> 4 * (i + 1)]}

StreamPatterns ==
    {[i \in Streams |-> ZeroStream],
     [i \in Streams |-> Stream(4, 2, 2, <<Decl(1, FALSE, 0, 4, i)>>)]}

Init ==
    \/ InitFrom(FlagsAll, StridePatterns, StreamPatterns, SizeExact)
    \/ InitFrom(FlagsFew, [Buffers -> StrideSet], StreamPatterns, SizeExact)

Spec == Init /\ [][Next]_vars

---------------------------------------------------------------------------
(* Vocabulary of the properties *)

Succeeded == pc = "returned" /\ ret = "true"

InitSucceeded == call = "init" /\ Succeeded

\* Bit b of word w, as a truth value.
BitSet(w, b) == b \in w

---------------------------------------------------------------------------
(* Properties checked under Spec *)

\* C5: on the generations before 8, buffer-enable bit i of so[0] equals
\* (buffer_strides[i] != 0) and so[2], so[3] stay zero; on generation 8 the
\* buffer-enable bits are all 0 whatever the strides, so[2] carries
\* buffer_strides[0] (low half) and [1] (high half), so[3] carries [2] and [3].
C5_BufferEnablesOrPitches ==
    InitSucceeded =>
      IF dev < ILO_GEN_8
      THEN /\ \A i \in Buffers :
                BitSet(so.so[0], 8 + i) <=> (info.buffer_strides[i] # 0)
           /\ so.so[2] = {} /\ so.so[3] = {}
      ELSE /\ \A i \in Buffers : ~BitSet(so.so[0], 8 + i)
           /\ Field(so.so[2], 0, 16) = info.buffer_strides[0]
           /\ Field(so.so[2], 16, 16) = info.buffer_strides[1]
           /\ Field(so.so[3], 0, 16) = info.buffer_strides[2]
           /\ Field(so.so[3], 16, 16) = info.buffer_strides[3]

\* A generation-8 encode of four enabled buffers, one with the largest pitch.
C5_Witness ==
    /\ InitSucceeded /\ dev = ILO_GEN_8
    /\ \A i \in Buffers : info.buffer_strides[i] # 0
    /\ info.buffer_strides[3] = 2048
    /\ Field(so.so[3], 16, 16) = 2048

\* C7: ilo_state_sol_init_disabled succeeds on every generation and for both
\* values of render_disable; so[0] holds the render-disable bit exactly when
\* render_disable is true and nothing else, so[1..5] are zero, and the
\* declaration-table length is 0.
C7_DisabledState ==
    call = "init_disabled" =>
      /\ Succeeded
      /\ so.so[0] = (IF info.render_disable THEN {30} ELSE {})
      /\ \A k \in 1..5 : so.so[k] = {}
      /\ so.decl_count = 0

\* The disabled constructor has run with render_disable set, on generation 8.
C7_Witness ==
    /\ call = "init_disabled" /\ pc = "returned"
    /\ info.render_disable /\ dev = ILO_GEN_8 /\ so.so[0] = {30}

\* C9: for every accepted info each field of so[0] reads back its own input,
\* whatever render_stream and tristrip_reorder are: the enable, render-disable
\* and statistics bits, the reorder bit, the buffer enables before generation
\* 8; and so for the read offsets and lengths of so[1] and the pitches of
\* so[2], so[3].
C9_FieldsDisjoint ==
    InitSucceeded =>
      /\ BitSet(so.so[0], 31) <=> info.sol_enable
      /\ BitSet(so.so[0], 30) <=> info.render_disable
      /\ BitSet(so.so[0], 25) <=> info.stats_enable
      /\ BitSet(so.so[0], 26) <=> (info.tristrip_reorder = 1)
      /\ \A i \in Buffers :
           BitSet(so.so[0], 8 + i) <=> (dev < ILO_GEN_8 /\ info.buffer_strides[i] # 0)
      /\ \A s \in Streams :
           /\ Field(so.so[1], 8 * s + 5, 1) = info.streams[s].vue_read_base \div 2
           /\ Field(so.so[1], 8 * s, 5) =
                (IF info.streams[s].vue_read_count <= 1 THEN 0
                 ELSE (info.streams[s].vue_read_count + 1) \div 2 - 1)
      /\ dev >= ILO_GEN_8 =>
           /\ Field(so.so[2], 0, 12) = info.buffer_strides[0]
           /\ Field(so.so[2], 16, 12) = info.buffer_strides[1]
           /\ Field(so.so[3], 0, 12) = info.buffer_strides[2]
           /\ Field(so.so[3], 16, 12) = info.buffer_strides[3]

---------------------------------------------------------------------------
(* Specification SpecRead: the vertex read windows vary *)

MaxReadCount == 35

ReadFocus ==
    {Stream(cv, b, c, <<>>) : cv \in {33, 37}, b \in 0..2, c \in 0..MaxReadCount}

ReadBackground == {Stream(37, b, c, <<>>) : b \in {0, 2}, c \in {0, 1, 34}}

InitRead ==
    InitFrom(FlagsFew, {[i \in Buffers |-> 0]},
             FocusStreams(ReadFocus, ReadBackground), SizeExact)

SpecRead == InitRead /\ [][Next]_vars

\* ceil(n / 2)
CeilHalf(n) == (n \div 2) + (n % 2)

\* C1: for every stream s and every accepted vue_read_count, the 5-bit
\* read-length field of stream s in so[1] equals
\* max(0, ceil(vue_read_count / 2) - 1); it is 0 for a count of 0 or 1 and
\* never exceeds 16.
C1_ReadLength ==
    InitSucceeded =>
      \A s \in Streams :
        LET c   == info.streams[s].vue_read_count
            len == Field(so.so[1], 8 * s, 5)
        IN  /\ c \in 0..34
            /\ len = (IF CeilHalf(c) - 1 > 0 THEN CeilHalf(c) - 1 ELSE 0)
            /\ (c \in {0, 1} => len = 0)
            /\ len <= 16

\* The largest accepted count on stream 3 beside a count of 1 on the others.
C1_Witness ==
    /\ InitSucceeded
    /\ info.streams[3].vue_read_count = 34
    /\ info.streams[0].vue_read_count = 1
    /\ Field(so.so[1], 24, 5) = 16
    /\ Field(so.so[1], 0, 5) = 0

---------------------------------------------------------------------------
(* The validation conditions as the documentation lists them *)

DeclInvalid(stream, decl) ==
    \/ (~decl.is_hole /\ decl.attr >= stream.vue_read_count)
    \/ decl.attr >= 33
    \/ decl.component_base >= 4
    \/ decl.component_base + decl.component_count > 4
    \/ decl.buffer >= 4

StreamInvalid(stream) ==
    \/ stream.vue_read_base + stream.vue_read_count > stream.cv_vue_attr_count
    \/ stream.vue_read_base \notin {0, 2}
    \/ stream.vue_read_count > 34
    \/ stream.decl_count > 128
    \/ \E j \in 1..stream.decl_count : DeclInvalid(stream, stream.decls[j])

InfoInvalid(inf) ==
    \/ \E s \in Streams : StreamInvalid(inf.streams[s])
    \/ \E b \in Buffers : inf.buffer_strides[b] > 2048 \/ inf.buffer_strides[b] % 4 # 0

\* The largest decl_count of the info.
MaxCount(inf) ==
    CHOOSE m \in 0..255 : /\ \E s \in Streams : inf.streams[s].decl_count = m
                          /\ \A s \in Streams : inf.streams[s].decl_count <= m

---------------------------------------------------------------------------
(* Specification SpecDecl: the declarations and the scratch size vary *)

MaxDecls == 2

DeclSet ==
    {Decl(0, FALSE, 0, 4, 0), Decl(32, FALSE, 3, 1, 3), Decl(21, FALSE, 1, 2, 2),
     Decl(0, TRUE, 0, 1, 1), Decl(32, TRUE, 0, 4, 3), Decl(10, FALSE, 0, 0, 1),
     Decl(1, FALSE, 2, 2, 0), Decl(5, FALSE, 0, 1, 4)}

DeclSeqs == UNION {[1..n -> DeclSet] : n \in 0..MaxDecls}

DeclFocus == {Stream(37, 2, 34, ds) : ds \in DeclSeqs}

DeclBackground ==
    {ZeroStream,
     Stream(37, 0, 34, <<Decl(31, FALSE, 0, 4, 3)>>),
     Stream(37, 0, 34, <<Decl(32, TRUE, 0, 4, 3), Decl(31, FALSE, 0, 4, 3),
                         Decl(0, FALSE, 1, 3, 2)>>)}

SizeCases ==
    {[delta |-> 0, dirty |-> FALSE], [delta |-> 0 - 1, dirty |-> FALSE],
     [delta |-> 1, dirty |-> FALSE], [delta |-> 0, dirty |-> TRUE]}

InitDecl ==
    InitFrom({[sol_enable |-> TRUE, render_disable |-> FALSE, stats_enable |-> TRUE,
               tristrip_reorder |-> 1, render_stream |-> 1]},
             {[i \in Buffers |-> 4 * i]},
             FocusStreams(DeclFocus, DeclBackground), SizeCases)

SpecDecl == InitDecl /\ [][Next]_vars

\* The 16-bit row of a declaration, by arithmetic.
RowValue(decl) ==
    decl.buffer * 4096 + ((2^decl.component_count) - 1) * (2^decl.component_base) +
    (IF decl.is_hole THEN 2048 ELSE decl.attr * 16)

\* C2: after a successful init, for every slot k below the table length and
\* every stream s, bits [16s, 16s+16) of table entry k hold the row of
\* declaration k of stream s when it has one and are 0 otherwise, and the
\* entry has no bit beyond the four ranges.
C2_TableEntries ==
    InitSucceeded =>
      /\ so.decl = "scratch"
      /\ so.decl_count <= Len(scratch)
      /\ \A k \in 0..(so.decl_count - 1) :
           /\ scratch[k + 1] \subseteq 0..63
           /\ \A s \in Streams :
                Field(scratch[k + 1], 16 * s, 16) =
                  (IF k < info.streams[s].decl_count
                   THEN RowValue(info.streams[s].decls[k + 1]) ELSE 0)

\* Stream 2 has two declarations, the second a hole with a non-zero attribute
\* index; the other streams have three, so slot 2 of stream 2 stays empty.
C2_Witness ==
    /\ InitSucceeded
    /\ info.streams[2].decl_count = 2
    /\ info.streams[2].decls[2] = Decl(32, TRUE, 0, 4, 3)
    /\ info.streams[0].decl_count = 3
    /\ so.decl_count = 3
    /\ Field(scratch[3], 32, 16) = 0
    /\ Field(scratch[2], 32, 16) = 12288 + 2048 + 15

\* C3: after a successful init, bit b of the buffer-select nibble of stream s
\* in so[4] is set iff some declaration of stream s, hole or not, has
\* buffer_index b; so[4] has no other bit.
C3_BufferSelects ==
    InitSucceeded =>
      /\ so.so[4] \subseteq 0..15
      /\ \A s \in Streams : \A b \in Buffers :
           BitSet(so.so[4], 4 * s + b) <=>
             (\E j \in 1..info.streams[s].decl_count :
                info.streams[s].decls[j].buffer = b)

\* Stream 1 selects buffer 1 through a hole only; stream 0 has no declaration.
C3_Witness ==
    /\ InitSucceeded
    /\ info.streams[1].decls = <<Decl(0, TRUE, 0, 1, 1)>>
    /\ info.streams[0].decl_count = 0
    /\ Field(so.so[4], 4, 4) = 2
    /\ Field(so.so[4], 0, 4) = 0

\* C10 as stated: an info whose data_size differs from size_for(generation, M)
\* is rejected.
C10_ExactSize ==
    (call = "init" /\ info.data_size # 8 * MaxCount(info)) => pc = "aborted"

\* C10 amended: an info whose data_size is smaller than size_for(generation, M)
\* is rejected with nothing written; a zero-filled region of that size or
\* larger is accepted when the info is valid, M entries are written and the
\* entries past M stay zero.
C10_AtLeastSize ==
    call = "init" =>
      /\ info.data_size < 8 * MaxCount(info) =>
           (pc = "aborted" /\ so.so = ZeroSol.so /\ so.decl_count = 0)
      /\ (/\ info.data_size >= 8 * MaxCount(info)
          /\ ~InfoInvalid(info)
          /\ \A k \in 1..Len(scratch) : k > MaxCount(info) => scratch[k] = {}
          /\ (pc = "aborted" => \A k \in 1..Len(scratch) : scratch[k] = {}))
         => (Succeeded /\ so.decl_count = MaxCount(info))

\* A region one entry larger than needed has been accepted and encoded.
C10_Witness ==
    /\ InitSucceeded
    /\ MaxCount(info) = 2
    /\ info.data_size = 24
    /\ so.decl_count = 2
    /\ scratch[2] # {} /\ scratch[3] = {}

---------------------------------------------------------------------------
(* Specification SpecValidate: every validated field takes values on both   *)
(* sides of its limit                                                       *)

\* n declarations that pass validation under a read count of 2.
PatternDecls(n) ==
    [j \in 1..n |-> Decl(j % 2, j % 3 = 0, j % 4, 4 - (j % 4), (j \div 2) % 4)]

ValidateDecls ==
    {Decl(0, FALSE, 0, 4, 0), Decl(1, FALSE, 3, 1, 3), Decl(2, FALSE, 0, 1, 0),
     Decl(32, FALSE, 0, 1, 0), Decl(33, FALSE, 0, 1, 0),
     Decl(32, TRUE, 1, 3, 2), Decl(33, TRUE, 0, 1, 0),
     Decl(0, FALSE, 4, 0, 0), Decl(0, FALSE, 3, 2, 0), Decl(0, FALSE, 0, 5, 0),
     Decl(0, TRUE, 0, 1, 4)}

ValidateDeclSeqs ==
    {<<>>} \cup {<<d>> : d \in ValidateDecls} \cup
    {<<Decl(0, TRUE, 0, 4, 1), d>> : d \in ValidateDecls}

\* <<cv_vue_attr_count, vue_read_base, vue_read_count>>
ValidateReads ==
    {<<37, 0, 0>>, <<37, 0, 2>>, <<37, 2, 34>>, <<37, 0, 34>>, <<37, 1, 2>>,
     <<37, 3, 2>>, <<37, 2, 35>>, <<37, 0, 35>>, <<33, 0, 33>>, <<33, 0, 34>>,
     <<33, 2, 31>>, <<33, 2, 32>>}

ValidateFocus ==
    {Stream(r[1], r[2], r[3], ds) : r \in ValidateReads, ds \in ValidateDeclSeqs} \cup
    {Stream(4, 2, 2, PatternDecls(n)) :
       n \in {ILO_STATE_SOL_MAX_DECL_COUNT, ILO_STATE_SOL_MAX_DECL_COUNT + 1}}

ValidateBackground ==
    {Stream(4, 2, 2, <<Decl(1, FALSE, 0, 4, 3)>>), Stream(4, 2, 3, <<>>)}

ValidateStrides ==
    {[i \in Buffers |-> IF i = b THEN v ELSE 0] :
       b \in {0, 3}, v \in {0, 4, 6, 2044, 2048, 2052}}

InitValidate ==
    InitFrom({[sol_enable |-> TRUE, render_disable |-> FALSE, stats_enable |-> TRUE,
               tristrip_reorder |-> 1, render_stream |-> 2]},
             ValidateStrides, FocusStreams(ValidateFocus, ValidateBackground),
             SizeExact)

SpecValidate == InitValidate /\ [][Next]_vars

\* The checks that precede validation pass: the region is large enough and
\* was zero-filled (an aborted call has left it as it was).
ReachesValidation ==
    /\ info.data_size >= 8 * MaxCount(info)
    /\ (pc = "aborted" => \A k \in 1..Len(scratch) : scratch[k] = {})

\* C6: validation of an info fails if and only if some stream or buffer meets
\* one of the listed conditions; every other info passes.
C6_ValidationFailsIff ==
    (call = "init" /\ ReachesValidation) =>
      ((pc = "aborted") <=> InfoInvalid(info))

\* Scenario C: vue_read_base = 2 and vue_read_count = 35 under a large enough
\* cv_vue_attr_count has been rejected.
C6_Witness ==
    /\ call = "init" /\ pc = "aborted" /\ ReachesValidation
    /\ \E s \in Streams :
         /\ info.streams[s].vue_read_base = 2
         /\ info.streams[s].vue_read_count = 35
         /\ info.streams[s].cv_vue_attr_count >= 37
    /\ \A b \in Buffers : info.buffer_strides[b] = 0

\* C8: a call of ilo_state_sol_init on an info that violates a validation
\* condition ends in failure with so[0..5], the table length and every entry
\* of the scratch region as they were before the call.
C8_NothingWrittenOnFailure ==
    [][(call' = "init" /\ InfoInvalid(info'))
         => (/\ pc' = "aborted"
             /\ so'.so = so.so
             /\ so'.decl_count = so.decl_count
             /\ scratch' = scratch)]_vars

\* A stream with declarations and an invalid stride has been rejected with
\* all six words still zero.
C8_Witness ==
    /\ call = "init" /\ pc = "aborted" /\ ReachesValidation
    /\ info.buffer_strides[3] = 2052
    /\ \E s \in Streams : info.streams[s].decl_count = 2
    /\ ~(\E s \in Streams : StreamInvalid(info.streams[s]))
    /\ so.so = ZeroSol.so

---------------------------------------------------------------------------
(* Specification SpecCount: the declaration counts run up to the maximum *)

CountSet ==
    {0, 1, ILO_STATE_SOL_MAX_DECL_COUNT \div 2 - 1, ILO_STATE_SOL_MAX_DECL_COUNT \div 2,
     ILO_STATE_SOL_MAX_DECL_COUNT, ILO_STATE_SOL_MAX_DECL_COUNT + 1}

InitCount ==
    InitFrom({[sol_enable |-> TRUE, render_disable |-> FALSE, stats_enable |-> FALSE,
               tristrip_reorder |-> 0, render_stream |-> 0]},
             {[i \in Buffers |-> 0]},
             {[i \in Streams |-> Stream(4, 2, 2, PatternDecls(n[i]))] :
                n \in [Streams -> CountSet]},
             SizeExact)

SpecCount == InitCount /\ [][Next]_vars

\* C4 as stated: the 6-bit field of stream s in so[5] equals decl_count of
\* stream s for every accepted decl_count.
C4_SixBitCounts ==
    InitSucceeded =>
      \A s \in Streams : Field(so.so[5], 8 * s, 6) = info.streams[s].decl_count

\* C4 amended: the 8-bit field of stream s in so[5], bits [8s, 8s+8), equals
\* decl_count of stream s for every accepted decl_count 0..128; the four
\* fields fill the word, so no count reaches another stream's field.
C4_EightBitCounts ==
    InitSucceeded =>
      \A s \in Streams :
        /\ info.streams[s].decl_count \in 0..128
        /\ Field(so.so[5], 8 * s, 8) = info.streams[s].decl_count

\* The maximum count on streams 1 and 3 beside smaller counts on 0 and 2.
C4_Witness ==
    /\ InitSucceeded
    /\ info.streams[3].decl_count = 128
    /\ info.streams[1].decl_count = 128
    /\ info.streams[0].decl_count = 63
    /\ info.streams[2].decl_count = 0
    /\ Field(so.so[5], 24, 8) = 128
    /\ Field(so.so[5], 16, 8) = 0

====
